---- MODULE Spec2Model ----
(***************************************************************************)
(* godoc-mcp: the Document Cache (src/cache/index.ts over node-cache),     *)
(* the Version Index Client (src/fetcher/module-index.ts), and the tool    *)
(* dispatch of the Query Orchestrator (src/index.ts).                      *)
(*                                                                         *)
(* Strings are sequences of one-character strings, so that concatenation,  *)
(* includes('-') and key construction are computed rather than assumed.    *)
(* Optional values are records [def, ...]; time is Date.now() in ms.       *)
(***************************************************************************)
EXTENDS Integers, Sequences, FiniteSets, TLC

VARIABLES
    now,            \* Date.now(), milliseconds
    data,           \* node-cache: key -> [t: expiry ms, v: CacheEntry]
    stats,          \* node-cache: [hits, misses, keys]
    lastSet,        \* history: key -> the set() still in force for that key
    last,           \* history: the direct API call that has just returned
    remote,         \* the version feed as the endpoint serves it (lines)
    cachedIndex,    \* ModuleIndexFetcher.cachedIndex
    lastFetchTime,  \* ModuleIndexFetcher.lastFetchTime
    proc,           \* the asynchronous calls in progress, one record each
    refreshLog      \* history: the successful feed refreshes, in order

vars == <<now, data, stats, lastSet, last, remote, cachedIndex, lastFetchTime,
          proc, refreshLog>>

cacheVars == <<data, stats>>
indexVars == <<cachedIndex, lastFetchTime>>

----------------------------------------------------------------------------
(* Bounds of the model *)

MaxKeys == 1        \* maxKeys the cache is constructed with
MaxGets == 2        \* cap on hits + misses
MaxLines == 3       \* lines in a feed body
NumProcs == 2       \* calls that can be in progress together
MaxRefresh == 2     \* cap on the feed fetches issued

(* Program constants *)

stdTTL == 3600
searchTTL == 300
indexCacheTTL == 3600000

(* Instants at which the clock is read *)
CacheTimes == {0, 300001, 3600001}
IndexTimes == {0, 1, 3600000}

----------------------------------------------------------------------------
(* Values *)

Undefined == [tag |-> "undefined"]
Null == [tag |-> "null"]

NoStr == [def |-> FALSE, s |-> <<>>]
Some(s) == [def |-> TRUE, s |-> s]
Truthy(x) == x.def /\ x.s # <<>>

NoNum == [def |-> FALSE, n |-> 0]
Num(n) == [def |-> TRUE, n |-> n]

----------------------------------------------------------------------------
(* Document Cache: DocumentationCache over node-cache                      *)

EmptyData == [k \in {} |-> 0]
ZeroStats == [hits |-> 0, misses |-> 0, keys |-> 0]

Remove(d, k) == [j \in DOMAIN d \ {k} |-> d[j]]

\* node-cache _check: an entry is served while not (t < Date.now())
Alive(e, n) == e.t = 0 \/ ~(e.t < n)

EffectiveTTL_ignoresArgument(ttl) == stdTTL

\* ttl || this.defaultTTL
EffectiveTTL(ttl) == IF ttl.def /\ ttl.n # 0 THEN ttl.n ELSE stdTTL

\* DocumentationCache.get
CacheHit(d, k, n) == k \in DOMAIN d /\ Alive(d[k], n)
CacheGetRet(d, k, n) == IF CacheHit(d, k, n) THEN d[k].v.data ELSE Undefined
CacheGetData(d, k, n) ==
    IF k \in DOMAIN d /\ ~Alive(d[k], n) THEN Remove(d, k) ELSE d
CacheGetStats_expiredUncounted(d, s, k, n) ==
    IF CacheHit(d, k, n) THEN [s EXCEPT !.hits = @ + 1]
    ELSE IF k \in DOMAIN d THEN [s EXCEPT !.keys = @ - 1]
    ELSE [s EXCEPT !.misses = @ + 1]

CacheGetStats(d, s, k, n) ==
    IF CacheHit(d, k, n) THEN [s EXCEPT !.hits = @ + 1]
    ELSE IF k \in DOMAIN d THEN [s EXCEPT !.misses = @ + 1, !.keys = @ - 1]
    ELSE [s EXCEPT !.misses = @ + 1]

\* DocumentationCache.set: node-cache throws when stats.keys >= maxKeys,
\* and the wrapper turns the throw into false
CacheSetOk_unbounded(s) == TRUE

CacheSetOk(s) == ~(s.keys >= MaxKeys)
CacheSetData(d, s, k, v, ttl, n) ==
    IF CacheSetOk(s)
    THEN [j \in DOMAIN d \cup {k} |->
            IF j = k
            THEN [t |-> n + EffectiveTTL(ttl) * 1000,
                  v |-> [data |-> v, timestamp |-> n, ttl |-> EffectiveTTL(ttl)]]
            ELSE d[j]]
    ELSE d
CacheSetStats(d, s, k) ==
    IF CacheSetOk(s) /\ k \notin DOMAIN d THEN [s EXCEPT !.keys = @ + 1] ELSE s

----------------------------------------------------------------------------
(* Direct calls on the cache, as the tests make them *)

CacheKeys == {<<"k", "1">>, <<"k", "2">>}
CacheVals == {[tag |-> "val", id |-> i] : i \in 1..2}
TTLArgs == {NoNum, Num(0), Num(searchTTL)}

NoSet == [def |-> FALSE, v |-> Undefined, ttl |-> NoNum, at |-> 0]
NoCall == [op |-> "none"]

\* the history of a key ends when its entry has left the store
Forget(ls, d) == [k \in DOMAIN ls |-> IF k \in DOMAIN d THEN ls[k] ELSE NoSet]

Set(k, v, ttl) ==
    /\ data' = CacheSetData(data, stats, k, v, ttl, now)
    /\ stats' = CacheSetStats(data, stats, k)
    /\ lastSet' = [lastSet EXCEPT ![k] =
            IF CacheSetOk(stats)
            THEN [def |-> TRUE, v |-> v, ttl |-> ttl, at |-> now]
            ELSE NoSet]
    /\ last' = [op |-> "set", key |-> k, ret |-> CacheSetOk(stats)]
    /\ UNCHANGED <<now, remote, cachedIndex, lastFetchTime, proc, refreshLog>>

Get(k) ==
    /\ stats.hits + stats.misses < MaxGets
    /\ data' = CacheGetData(data, k, now)
    /\ stats' = CacheGetStats(data, stats, k, now)
    /\ last' = [op |-> "get", key |-> k, ret |-> CacheGetRet(data, k, now)]
    /\ UNCHANGED <<now, lastSet, remote, cachedIndex, lastFetchTime, proc,
                   refreshLog>>

\* DocumentationCache.has: node-cache has() drops an expired entry too
Has(k) ==
    /\ data' = CacheGetData(data, k, now)
    /\ stats' = IF k \in DOMAIN data /\ ~Alive(data[k], now)
                THEN [stats EXCEPT !.keys = @ - 1] ELSE stats
    /\ last' = [op |-> "has", key |-> k, ret |-> CacheHit(data, k, now)]
    /\ lastSet' = Forget(lastSet, data')
    /\ UNCHANGED <<now, remote, cachedIndex, lastFetchTime, proc, refreshLog>>

\* DocumentationCache.delete: node-cache del() does not look at the expiry
Delete(k) ==
    /\ data' = IF k \in DOMAIN data THEN Remove(data, k) ELSE data
    /\ stats' = IF k \in DOMAIN data THEN [stats EXCEPT !.keys = @ - 1] ELSE stats
    /\ lastSet' = [lastSet EXCEPT ![k] = NoSet]
    /\ last' = [op |-> "delete", key |-> k, ret |-> (k \in DOMAIN data)]
    /\ UNCHANGED <<now, remote, cachedIndex, lastFetchTime, proc, refreshLog>>

\* DocumentationCache.clear: flushAll() empties the data and zeroes the stats
Clear ==
    /\ data' = EmptyData
    /\ stats' = ZeroStats
    /\ lastSet' = [k \in CacheKeys |-> NoSet]
    /\ last' = [op |-> "clear"]
    /\ UNCHANGED <<now, remote, cachedIndex, lastFetchTime, proc, refreshLog>>

\* DocumentationCache.getStats: keys is cache.keys().length, the counters are
\* those of the store
GetStats ==
    /\ last' = [op |-> "getStats",
                ret |-> [keys |-> Cardinality(DOMAIN data), hits |-> stats.hits,
                         misses |-> stats.misses]]
    /\ UNCHANGED <<now, data, stats, lastSet, remote, cachedIndex,
                   lastFetchTime, proc, refreshLog>>

\* the checkperiod timer of node-cache: every expired entry is deleted
Expired(d, n) == {k \in DOMAIN d : ~Alive(d[k], n)}
CheckData ==
    /\ Expired(data, now) # {}
    /\ data' = [k \in DOMAIN data \ Expired(data, now) |-> data[k]]
    /\ stats' = [stats EXCEPT !.keys = @ - Cardinality(Expired(data, now))]
    /\ lastSet' = Forget(lastSet, data')
    /\ last' = NoCall
    /\ UNCHANGED <<now, remote, cachedIndex, lastFetchTime, proc,
                   refreshLog>>

\* time passes
Tick(T) ==
    /\ \E t \in T : t > now /\ now' = t
    /\ last' = NoCall
    /\ lastSet' = Forget(lastSet, data)
    /\ UNCHANGED <<data, stats, remote, cachedIndex, lastFetchTime, proc,
                   refreshLog>>

----------------------------------------------------------------------------
(* Version Index Client: ModuleIndexFetcher                                *)

\* a || b on optional strings
Or(a, b) == IF Truthy(a) THEN a ELSE b

\* one line of the feed body
Obj(P, V, T, p, v, t) ==
    [kind |-> "object", Path |-> P, Version |-> V, Timestamp |-> T,
     path |-> p, version |-> v, timestamp |-> t]
Upper(p, v, t) == Obj(Some(p), Some(v), Some(t), NoStr, NoStr, NoStr)
Lower(p, v, t) == Obj(NoStr, NoStr, NoStr, Some(p), Some(v), Some(t))
Garbage == [kind |-> "garbage"]     \* not JSON
Blank == [kind |-> "blank"]         \* an empty line
JsonNull == [kind |-> "null"]       \* the JSON literal null
Scalar == [kind |-> "scalar"]       \* a JSON number, string or boolean

IsBlank(l) == l.kind = "blank"

\* text.trim().split('\n'): blank lines at both ends go, an empty body is [""]
RECURSIVE TrimLeft(_)
TrimLeft(ls) ==
    IF ls = <<>> THEN <<>>
    ELSE IF IsBlank(Head(ls)) THEN TrimLeft(Tail(ls)) ELSE ls
RECURSIVE TrimRight(_)
TrimRight(ls) ==
    IF ls = <<>> THEN <<>>
    ELSE IF IsBlank(ls[Len(ls)]) THEN TrimRight(SubSeq(ls, 1, Len(ls) - 1))
    ELSE ls
SplitLines(body) ==
    IF TrimRight(TrimLeft(body)) = <<>> THEN <<Blank>>
    ELSE TrimRight(TrimLeft(body))

\* the try block of the loop: JSON.parse, then the three property reads
LineParses(l) == l.kind \in {"object", "scalar"}
LineRow(l) ==
    IF l.kind = "object"
    THEN [path |-> Or(l.Path, l.path), version |-> Or(l.Version, l.version),
          timestamp |-> Or(l.Timestamp, l.timestamp)]
    ELSE [path |-> NoStr, version |-> NoStr, timestamp |-> NoStr]

\* fetchIndex, after a successful response: the rows of the lines that parse
RECURSIVE ParseLines(_)
ParseLines(ls) ==
    IF ls = <<>> THEN <<>>
    ELSE IF LineParses(Head(ls))
         THEN <<LineRow(Head(ls))>> \o ParseLines(Tail(ls))
         ELSE ParseLines(Tail(ls))
fetchIndex_failsOnBadLine(body) ==
    [threw |-> \E i \in 1..Len(SplitLines(body)) : ~LineParses(SplitLines(body)[i]),
     modules |-> ParseLines(SplitLines(body))]

\* [threw, modules]: the inner catch keeps a bad line from ending the loop
fetchIndex(body) == [threw |-> FALSE, modules |-> ParseLines(SplitLines(body))]

\* new Date(timestamp).getTime(): timestamps are strings of digits that
\* stand for the instants of RFC 3339 strings
RECURSIVE DigitsValue(_)
DigitValue(c) == CASE c = "0" -> 0 [] c = "1" -> 1 [] c = "2" -> 2
                   [] c = "3" -> 3 [] OTHER -> 4
DigitsValue(s) ==
    IF s = <<>> THEN 0
    ELSE 10 * DigitsValue(SubSeq(s, 1, Len(s) - 1)) + DigitValue(s[Len(s)])
getTime(ts) == DigitsValue(ts.s)

\* Array.prototype.sort with (a, b) => time(b) - time(a): stable, newest first
RECURSIVE InsertDesc(_, _)
InsertDesc(sorted, x) ==
    IF sorted = <<>> THEN <<x>>
    ELSE IF getTime(Head(sorted).timestamp) >= getTime(x.timestamp)
         THEN <<Head(sorted)>> \o InsertDesc(Tail(sorted), x)
         ELSE <<x>> \o sorted
RECURSIVE SortDesc(_)
SortDesc(xs) ==
    IF xs = <<>> THEN <<>>
    ELSE InsertDesc(SortDesc(SubSeq(xs, 1, Len(xs) - 1)), xs[Len(xs)])

\* version.includes('-')
HasHyphen(v) == \E i \in 1..Len(v.s) : v.s[i] = "-"

VersionEntry(m) == [version |-> m.version, timestamp |-> m.timestamp]
MapEntries(xs) == [i \in 1..Len(xs) |-> VersionEntry(xs[i])]

\* m.path === packagePath
PathIs(m, packagePath) == m.path.def /\ m.path.s = packagePath

\* getPackageVersions, after getIndex has delivered the index
PackageRows(index, packagePath) ==
    LET ofPath(m) == PathIs(m, packagePath) IN SelectSeq(index, ofPath)
SortedVersions_unsorted(index, packagePath) ==
    MapEntries(PackageRows(index, packagePath))

SortedVersions(index, packagePath) ==
    SortDesc(MapEntries(PackageRows(index, packagePath)))
StableVersions(versions) ==
    LET stable(v) == ~HasHyphen(v.version) IN SelectSeq(versions, stable)
LatestOf_newestOverall(versions) == versions[1].version

LatestOf(versions) ==
    IF StableVersions(versions) # <<>>
    THEN StableVersions(versions)[1].version
    ELSE versions[1].version
\* versions.filter(v => !v.version.includes('-')) visits every row of the
\* package: a row without a version ends the call with a TypeError
VersionsThrow(index, packagePath) ==
    \E i \in 1..Len(PackageRows(index, packagePath)) :
        ~PackageRows(index, packagePath)[i].version.def
\* the value returned when the call does not throw
getPackageVersions(index, packagePath) ==
    IF SortedVersions(index, packagePath) = <<>> THEN Null
    ELSE [tag |-> "versions", path |-> packagePath,
          versions |-> SortedVersions(index, packagePath),
          latest |-> LatestOf(SortedVersions(index, packagePath))]

\* getLatestVersion: packageVersions?.latest || null
getLatestVersion(index, packagePath) ==
    IF getPackageVersions(index, packagePath) = Null THEN NoStr
    ELSE Or(getPackageVersions(index, packagePath).latest, NoStr)

\* String.prototype.toLowerCase, on the letters that paths and queries use
ToLowerChar(c) == CASE c = "P" -> "p" [] c = "Q" -> "q" [] OTHER -> c
toLowerCase(s) == [i \in 1..Len(s) |-> ToLowerChar(s[i])]
\* String.prototype.includes
includes(str, sub) ==
    \E i \in 0..(Len(str) - Len(sub)) : SubSeq(str, i + 1, i + Len(sub)) = sub
\* results.slice(0, 50)
maxResults == 50
\* module.path.toLowerCase().includes(queryLower)
MatchingRows(index, query) ==
    LET matches(m) == includes(toLowerCase(m.path.s), toLowerCase(query))
    IN SelectSeq(index, matches)
\* the keys of packageMap, in the order of their first insertion
MapKeys(rows) ==
    LET first(i) == \A j \in 1..(i - 1) : rows[j].path.s # rows[i].path.s
        firsts == SelectSeq([i \in 1..Len(rows) |-> i], first)
    IN [k \in 1..Len(firsts) |-> rows[firsts[k]].path.s]
\* packageMap.get(path), sorted newest first
SortedGroup(rows, key) ==
    LET ofKey(m) == m.path.s = key IN SortDesc(SelectSeq(rows, ofKey))
\* sorted.find(v => !v.version.includes('-')): the position found, 0 for
\* none; it throws at a row without a version
RECURSIVE FindStable(_, _)
FindStable(sorted, i) ==
    IF i > Len(sorted) THEN [threw |-> FALSE, at |-> 0]
    ELSE IF ~sorted[i].version.def THEN [threw |-> TRUE, at |-> 0]
    ELSE IF ~HasHyphen(sorted[i].version) THEN [threw |-> FALSE, at |-> i]
    ELSE FindStable(sorted, i + 1)
\* latest = stableVersion || sorted[0]; { path, latest: latest.version }
SearchEntry(sorted) ==
    [path |-> sorted[1].path.s,
     latest |-> IF FindStable(sorted, 1).at > 0
                THEN sorted[FindStable(sorted, 1).at].version.s
                ELSE sorted[1].version.s]
Slice(results) ==
    IF Len(results) > maxResults THEN SubSeq(results, 1, maxResults)
    ELSE results
\* searchPackages of the index client, after getIndex has delivered the
\* index: [threw, items]; a row without a path, or a row without a version
\* that find visits, ends the call with a TypeError
searchPackages(index, query) ==
    LET rows == MatchingRows(index, query)
        keys == MapKeys(rows)
        threw ==
            \/ \E i \in 1..Len(index) : ~index[i].path.def
            \/ \E k \in 1..Len(keys) :
                   FindStable(SortedGroup(rows, keys[k]), 1).threw
    IN [threw |-> threw,
        items |-> IF threw THEN <<>>
                  ELSE Slice([k \in 1..Len(keys) |->
                                 SearchEntry(SortedGroup(rows, keys[k]))])]
NoIndex == [def |-> FALSE, rows |-> <<>>]
Index(rows) == [def |-> TRUE, rows |-> rows]

Fresh_inverted(ci, lft, n) == ci.def /\ (n - lft) > indexCacheTTL

\* getIndex: this.cachedIndex && (now - this.lastFetchTime) < this.indexCacheTTL
Fresh(ci, lft, n) == ci.def /\ (n - lft) < indexCacheTTL

RefreshTime_notRecorded(lft, p) == lft

\* getIndex: this.lastFetchTime = now, the time read when the call began
RefreshTime(lft, p) == p.rnow

----------------------------------------------------------------------------
(* Query Orchestrator: the CallTool handler of src/index.ts                *)

Tools == {"get_package_doc", "get_function_doc", "get_type_doc",
          "search_packages", "get_package_examples", "get_package_versions"}
VersionedTools == {"get_package_doc", "get_function_doc", "get_type_doc",
                   "get_package_examples"}
SymbolTools == {"get_function_doc", "get_type_doc"}

Latest == <<"latest">>

\* String(n) for the small numbers that occur
Digit(n) == CASE n = 0 -> "0" [] n = 1 -> "1" [] n = 2 -> "2" [] n = 3 -> "3"
              [] n = 4 -> "4" [] n = 5 -> "5" [] n = 6 -> "6" [] n = 7 -> "7"
              [] n = 8 -> "8" [] OTHER -> "9"
RECURSIVE NumStr(_)
NumStr(n) ==
    IF n < 10 THEN <<Digit(n)>> ELSE NumStr(n \div 10) \o <<Digit(n % 10)>>

defaultLimit == 10
\* (args.limit as number) || 10
Limit(limit) == IF limit.def /\ limit.n # 0 THEN limit.n ELSE defaultLimit

\* the cacheKey template of each case of the switch
Kind(tool) ==
    CASE tool = "get_package_doc" -> "package"
      [] tool = "get_function_doc" -> "function"
      [] tool = "get_type_doc" -> "type"
      [] tool = "search_packages" -> "search"
      [] tool = "get_package_examples" -> "examples"
      [] OTHER -> "versions"
AtVersion(ver) == IF Truthy(ver) THEN <<"@">> \o ver.s ELSE <<>>
cacheKey_dropsVersion(tool, path, ver, sym, limit) ==
    CASE tool \in {"get_package_doc", "get_package_examples"} ->
            <<Kind(tool), ":">> \o path
      [] tool \in SymbolTools ->
            <<Kind(tool), ":">> \o path \o <<":">> \o sym.s
      [] tool = "search_packages" ->
            <<Kind(tool), ":">> \o sym.s \o <<":">> \o NumStr(Limit(limit))
      [] OTHER -> <<Kind(tool), ":">> \o path

cacheKey(tool, path, ver, sym, limit) ==
    CASE tool \in {"get_package_doc", "get_package_examples"} ->
            <<Kind(tool), ":">> \o path \o AtVersion(ver)
      [] tool \in SymbolTools ->
            <<Kind(tool), ":">> \o path \o AtVersion(ver) \o <<":">> \o sym.s
      [] tool = "search_packages" ->
            <<Kind(tool), ":">> \o sym.s \o <<":">> \o NumStr(Limit(limit))
      [] OTHER -> <<Kind(tool), ":">> \o path

\* the extractor method each case of the switch calls
MethodOf(api) ==
    CASE api = "get_package_doc" -> "getPackageDoc"
      [] api = "get_function_doc" -> "getFunctionDoc"
      [] api = "get_type_doc" -> "getTypeDoc"
      [] api = "search_packages" -> "searchPackages"
      [] api = "get_package_examples" -> "getPackageExamples"
      [] OTHER -> api

\* the page each extractor method asks fetchHTML for
pageUrl(tool, path, ver, sym, limit) ==
    IF MethodOf(tool) = "searchPackages"
    THEN <<"/search?q=">> \o sym.s \o <<"&limit=">> \o NumStr(Limit(limit))
    ELSE <<"/">> \o path \o AtVersion(ver)

\* cache.set(cacheKey, value[, 300])
StoreTTL(tool) ==
    IF tool \in {"search_packages", "get_package_versions"}
    THEN Num(searchTTL) ELSE NoNum

\* !doc
Falsy(v) == v = Undefined \/ v = Null

ResolveVersion_keepsSentinel(version, resolved) ==
    IF Truthy(resolved) THEN resolved ELSE version

\* version = (await moduleIndex.getLatestVersion(packagePath)) || undefined
ResolveVersion(version, resolved) == IF Truthy(resolved) THEN resolved ELSE NoStr

\* throw new Error(...) of fetchIndex: a plain Error, no code property
PlainError(msg) == [kind |-> "Error", code |-> "none", message |-> msg]
\* GoDocError and McpError
GoDocError(code, msg) == [kind |-> "GoDocError", code |-> code, message |-> msg]
McpError(code, msg) == [kind |-> "McpError", code |-> code, message |-> msg]
handleError_leaksMessage(e) ==
    IF e.code = "NOT_FOUND" THEN McpError("InvalidRequest", e.message)
    ELSE McpError("InternalError", e.message)

handleError(e) ==
    IF e.code = "NOT_FOUND" THEN McpError("InvalidRequest", e.message)
    ELSE IF e.code = "TIMEOUT" THEN McpError("InternalError", <<"Request timeout">>)
    ELSE McpError("InternalError",
                  <<"An error occurred while fetching documentation">>)

\* what an extractor method returns from revision rev of the page
PageRevs == {1, 2}
Document(p, rev) ==
    [tag |-> IF MethodOf(p.api) = "searchPackages" THEN "results" ELSE "doc",
     url |-> p.url, sym |-> p.sym, rev |-> rev]

NoErr == [kind |-> "none"]
\* an error object with details set to the error it wraps
Wrapped(code, msg, cause) ==
    [kind |-> "GoDocError", code |-> code, message |-> msg, details |-> cause]
\* what fetch() and response.text() reject with
AbortError == [kind |-> "AbortError", code |-> "none", message |-> <<"aborted">>]
TypeErr(msg) == [kind |-> "TypeError", code |-> "none", message |-> msg]

\* the outcome of a call: a value returned or an error thrown
Gave(v) == [threw |-> FALSE, value |-> v, err |-> NoErr]
Threw(e) == [threw |-> TRUE, value |-> Undefined, err |-> e]

\* what the network does with one request: a response head and the body that
\* follows it, an abort by the timer, or a transport failure
Response(status, body) == [kind |-> "response", status |-> status, body |-> body]
Aborted == [kind |-> "abort"]
FetchRejected == [kind |-> "rejected"]      \* fetch() rejects
BodyRejected == [kind |-> "bodyRejected"]   \* response.text() rejects
Statuses == {200, 404, 500}

PageCatch_rethrows(error, url) ==
    IF error.kind = "AbortError"
    THEN GoDocError("TIMEOUT", <<"Request timeout: ">> \o url)
    ELSE error

\* the catch block of fetchHTML
PageCatch(error, url) ==
    IF error.kind = "AbortError"
    THEN GoDocError("TIMEOUT", <<"Request timeout: ">> \o url)
    ELSE IF error.code # "none" THEN error
    ELSE Wrapped("NETWORK_ERROR", <<"Network error: ">> \o error.message, error)

\* fetchHTML(url) under the network outcome net
fetchHTML(url, net) ==
    CASE net.kind = "response" /\ net.status = 404 ->
            Threw(PageCatch(GoDocError("NOT_FOUND",
                                       <<"Package not found: ">> \o url), url))
      [] net.kind = "response" /\ net.status \notin 200..299 ->
            Threw(PageCatch(PlainError(<<"HTTP ">> \o NumStr(net.status)), url))
      [] net.kind = "abort" -> Threw(PageCatch(AbortError, url))
      [] net.kind = "rejected" -> Threw(PageCatch(TypeErr(<<"fetch failed">>), url))
      [] net.kind = "bodyRejected" ->
            Threw(PageCatch(TypeErr(<<"terminated">>), url))
      [] OTHER -> Gave(net.body)

\* a fetched page: its revision, the elements the symbol lookups read, in
\* document order, and whether its markup makes an extraction rule throw
Elem(kind, id, sig) == [kind |-> kind, id |-> id, sig |-> sig]
Page(rev, elems, breaks) ==
    [rev |-> rev, elems |-> elems, breaks |-> breaks, items |-> <<>>]
\* a search page: the elements its container selectors match, in document
\* order; an element is the set of selectors (1 '.SearchSnippet', 2
\* '[data-test-id="snippet-title"]', 3 '.SearchResult', 4 'article') that
\* match it, the href and the trimmed text of its first link, and the
\* trimmed texts of its header and its h2
Snippet(sels, href, text, header, h2) ==
    [sels |-> sels, href |-> href, text |-> text, header |-> header, h2 |-> h2]
SearchPage(rev, items, breaks) ==
    [rev |-> rev, elems |-> <<>>, breaks |-> breaks, items |-> items]

NoPage == Page(0, <<>>, FALSE)

\* $('[data-kind="function"]').each(...): every element whose id is the name
\* assigns its declaration text, so the last such element decides
RECURSIVE ScanFor(_, _, _, _)
ScanFor(elems, kind, name, text) ==
    IF elems = <<>> THEN text
    ELSE ScanFor(Tail(elems), kind, name,
                 IF Head(elems).kind = kind /\ Head(elems).id = name
                 THEN Head(elems).sig ELSE text)

ParseMessage(method) ==
    CASE method = "getPackageDoc" -> <<"Failed to parse package documentation">>
      [] method = "getFunctionDoc" -> <<"Failed to parse function documentation">>
      [] method = "getTypeDoc" -> <<"Failed to parse type documentation">>
      [] method = "searchPackages" -> <<"Failed to search packages">>
      [] OTHER -> <<"Failed to get package examples">>
NotFoundMessage(method, name, path) ==
    <<IF method = "getFunctionDoc" THEN "Function " ELSE "Type ">>
        \o name \o <<" not found in ">> \o path

\* href.replace(/^\//, '').split('@')[0]
StripSlash(href) ==
    IF href # <<>> /\ Head(href) = "/" THEN Tail(href) ELSE href
RECURSIVE UpTo(_, _)
UpTo(str, c) ==
    IF str = <<>> \/ Head(str) = c THEN <<>>
    ELSE <<Head(str)>> \o UpTo(Tail(str), c)
SnippetPath(href) == UpTo(StripSlash(href), "@")
\* path.split('/').pop()
RECURSIVE LastSegment(_)
LastSegment(path) ==
    IF path = <<>> \/ path[Len(path)] = "/" THEN <<>>
    ELSE LastSegment(SubSeq(path, 1, Len(path) - 1)) \o <<path[Len(path)]>>
\* link.text().trim() || header || h2 || path.split('/').pop() || ''
SnippetName(el) ==
    IF el.text # <<>> THEN el.text
    ELSE IF el.header # <<>> THEN el.header
    ELSE IF el.h2 # <<>> THEN el.h2
    ELSE LastSegment(SnippetPath(el.href))
\* $(selector).each(...): a result is pushed for every element of the
\* selector with a path and a name whose path is not in results yet
RECURSIVE PushEach(_, _, _)
PushEach(items, selector, results) ==
    IF items = <<>> THEN results
    ELSE PushEach(Tail(items), selector,
            IF /\ selector \in Head(items).sels
               /\ SnippetPath(Head(items).href) # <<>>
               /\ SnippetName(Head(items)) # <<>>
               /\ \A i \in 1..Len(results) :
                      results[i].path # SnippetPath(Head(items).href)
            THEN Append(results, [path |-> SnippetPath(Head(items).href),
                                  name |-> SnippetName(Head(items))])
            ELSE results)
searchSelectors == <<1, 2, 3, 4>>
\* for (const selector of searchSelectors) { ...; if (found) break; }:
\* found is set when a result is pushed
RECURSIVE SelectorLoop(_, _)
SelectorLoop(items, k) ==
    IF k > Len(searchSelectors) THEN <<>>
    ELSE IF PushEach(items, searchSelectors[k], <<>>) # <<>>
    THEN PushEach(items, searchSelectors[k], <<>>)
    ELSE SelectorLoop(items, k + 1)
\* what searchPackages of the extractor returns from a page
SearchResults(p, page) ==
    [tag |-> "results", url |-> p.url, sym |-> p.sym, rev |-> page.rev,
     items |-> SelectorLoop(page.items, 1)]

\* the try block of an extractor method on the fetched page
Extract(p, page) ==
    IF page.breaks
    THEN Threw(Wrapped("PARSE_ERROR", ParseMessage(MethodOf(p.api)),
                       TypeErr(<<"extraction">>)))
    ELSE IF MethodOf(p.api) \in {"getFunctionDoc", "getTypeDoc"}
    THEN IF ScanFor(page.elems,
                    IF MethodOf(p.api) = "getFunctionDoc" THEN "function"
                    ELSE "type", p.sym.s, <<>>) = <<>>
         THEN Threw(GoDocError("NOT_FOUND",
                        NotFoundMessage(MethodOf(p.api), p.sym.s, p.path)))
         ELSE Gave([tag |-> "symbol", name |-> p.sym.s,
                    text |-> ScanFor(page.elems,
                                IF MethodOf(p.api) = "getFunctionDoc"
                                THEN "function" ELSE "type", p.sym.s, <<>>),
                    packagePath |-> p.path, rev |-> page.rev])
    ELSE IF MethodOf(p.api) = "searchPackages"
    THEN Gave(SearchResults(p, page))
    ELSE Gave(Document(p, page.rev))

\* an extractor method under the network outcome net
Fetched(p, net) ==
    IF fetchHTML(p.url, net).threw THEN fetchHTML(p.url, net)
    ELSE Extract(p, fetchHTML(p.url, net).value)

----------------------------------------------------------------------------
(* Calls in progress.  A call runs from its start to its first network     *)
(* await in one step, and from the completion of that await to its next    *)
(* network await or its end in one step.  proc holds the calls suspended   *)
(* on the network; a call that returns or throws leaves proc and is shown  *)
(* in last.                                                                *)

Procs == 1..NumProcs

NoSib == [def |-> FALSE, doc |-> Undefined]
Idle ==
    [pc |-> "idle", api |-> "none", path |-> <<>>, version |-> NoStr,
     sym |-> NoStr, limit |-> NoNum,
     rnow |-> 0,            \* const now = Date.now() of getIndex
     ver |-> NoStr,         \* the handler's version variable
     key |-> <<>>,          \* the handler's cacheKey
     url |-> <<>>,          \* the page the extractor was asked for
     ret |-> Undefined, err |-> NoErr,
     \* history of this call
     raised |-> NoErr,      \* the error as it left the extractor or the index
     how |-> "none",        \* the network outcome that ended the last fetch
     page |-> NoPage,       \* the page that fetch delivered
     seen |-> NoIndex,      \* cachedIndex when getIndex was entered
     seenAt |-> 0,          \* Date.now() when getIndex was entered
     seenLft |-> 0,         \* lastFetchTime when getIndex was entered
     resolved |-> NoStr,    \* what getLatestVersion returned
     looked |-> FALSE,      \* the cache lookup has been made
     hit |-> FALSE,         \* the lookup found an unexpired entry
     held |-> Undefined,    \* the payload of that entry
     net |-> 0,             \* feed fetches issued by this call
     got |-> FALSE,         \* the feed fetch delivered a response body
     ext |-> 0,             \* extractor calls made by this call
     idx |-> 0,             \* getPackageVersions calls made by this call
     lat |-> 0,             \* getLatestVersion calls made by this call
     alone |-> FALSE,       \* no other feed fetch was in flight at the start
     sib |-> NoSib]         \* what a request under the same key returned
                            \* while this one awaited its own page

\* the calls suspended on a page under the key of call r learn what r returned
Siblings(r, doc) ==
    [q \in Procs |->
        IF q = r THEN Idle
        ELSE IF /\ proc[r].api \in Tools /\ proc[q].api \in Tools
                /\ proc[q].pc \in {"pageFetch", "pageBody"}
                /\ proc[q].key = proc[r].key
        THEN [proc[q] EXCEPT !.sib = [def |-> TRUE, doc |-> doc]]
        ELSE proc[q]]

\* a new call takes the first free slot: slots carry no identity
CanStart(r) ==
    /\ proc[r].pc = "idle"
    /\ \A q \in 1..(r - 1) : proc[q].pc # "idle"
Returns(p) == [op |-> "call", call |-> p]
InFlight == {r \in Procs : proc[r].pc \in {"indexFetch", "indexBody"}}
\* setTimeout(() => controller.abort(), timeout) ... clearTimeout(timeoutId):
\* the timer is armed until the response head has arrived
TimerArmed(p) == p.pc \in {"pageFetch", "indexFetch"}

IndexApis == {"getIndex", "getPackageVersions", "getLatestVersion"}
\* searchPackages of the index client; its argument is the query
SearchApi == "moduleIndex.searchPackages"
NoPathText == <<"Cannot read properties of undefined">>

\* what each public method of the index client returns from a delivered index
IndexResult(api, rows, path) ==
    CASE api = "getIndex" -> [tag |-> "index", rows |-> rows]
      [] api = "getPackageVersions" -> getPackageVersions(rows, path)
      [] OTHER -> [tag |-> "string", value |-> getLatestVersion(rows, path)]

\* getIndex up to its return or its await of fetchIndex
EnterGetIndex(p) ==
    [p EXCEPT !.seen = cachedIndex, !.seenAt = now, !.seenLft = lastFetchTime,
              !.rnow = now,
              !.pc = IF Fresh(cachedIndex, lastFetchTime, now)
                     THEN "gotIndex" ELSE "indexFetch",
              !.net = IF Fresh(cachedIndex, lastFetchTime, now) THEN @ ELSE @ + 1,
              !.alone = (InFlight = {})]

Out(p, d, s) == [p |-> p, d |-> d, s |-> s]

\* case 'get_package_versions', from the delivery of the index: the result
\* is stored, null included, and only then tested
NoVersions(path) == <<"No versions found for package: ">> \o path
AfterVersions(p, rows, d, s, n) ==
    IF VersionsThrow(rows, p.path)
    THEN Out([p EXCEPT !.pc = "failed", !.raised = TypeErr(NoPathText),
                       !.err = handleError(TypeErr(NoPathText))], d, s)
    ELSE
    Out(IF Falsy(getPackageVersions(rows, p.path))
        THEN [p EXCEPT !.pc = "failed",
                !.raised = McpError("InvalidRequest", NoVersions(p.path)),
                !.err = handleError(McpError("InvalidRequest", NoVersions(p.path)))]
        ELSE [p EXCEPT !.pc = "done", !.ret = getPackageVersions(rows, p.path)],
        CacheSetData(d, s, p.key, getPackageVersions(rows, p.path),
                     StoreTTL(p.api), n),
        CacheSetStats(d, s, p.key))

MissPath_coalesced(p, d, s, n) ==
    IF \E r \in Procs : proc[r].pc = "pageFetch" /\ proc[r].key = p.key
    THEN Out([p EXCEPT !.pc = "pageFetch",
                !.url = pageUrl(p.api, p.path, p.ver, p.sym, p.limit)], d, s)
    ELSE IF p.api = "get_package_versions"
    THEN IF EnterGetIndex([p EXCEPT !.idx = @ + 1]).pc = "gotIndex"
         THEN AfterVersions(EnterGetIndex([p EXCEPT !.idx = @ + 1]),
                            cachedIndex.rows, d, s, n)
         ELSE Out(EnterGetIndex([p EXCEPT !.idx = @ + 1]), d, s)
    ELSE Out([p EXCEPT !.pc = "pageFetch", !.ext = @ + 1,
                !.url = pageUrl(p.api, p.path, p.ver, p.sym, p.limit)], d, s)

MissPath_storesPlaceholder(p, d, s, n) ==
    IF p.api = "get_package_versions"
    THEN IF EnterGetIndex([p EXCEPT !.idx = @ + 1]).pc = "gotIndex"
         THEN AfterVersions(EnterGetIndex([p EXCEPT !.idx = @ + 1]),
                            cachedIndex.rows, d, s, n)
         ELSE Out(EnterGetIndex([p EXCEPT !.idx = @ + 1]), d, s)
    ELSE Out([p EXCEPT !.pc = "pageFetch", !.ext = @ + 1,
                !.url = pageUrl(p.api, p.path, p.ver, p.sym, p.limit)],
             CacheSetData(d, s, p.key, Null, StoreTTL(p.api), n),
             CacheSetStats(d, s, p.key))

\* if (!doc) { doc = await ... }: every call that finds nothing usable
\* makes its own call of the extractor or of getPackageVersions
MissPath(p, d, s, n) ==
    IF p.api = "get_package_versions"
    THEN IF EnterGetIndex([p EXCEPT !.idx = @ + 1]).pc = "gotIndex"
         THEN AfterVersions(EnterGetIndex([p EXCEPT !.idx = @ + 1]),
                            cachedIndex.rows, d, s, n)
         ELSE Out(EnterGetIndex([p EXCEPT !.idx = @ + 1]), d, s)
    ELSE Out([p EXCEPT !.pc = "pageFetch", !.ext = @ + 1,
                !.url = pageUrl(p.api, p.path, p.ver, p.sym, p.limit)], d, s)

\* const cacheKey = ...; let doc = cache.get(cacheKey); if (!doc) ...
Lookup(p, d, s, n) ==
    LET key == cacheKey(p.api, p.path, p.ver, p.sym, p.limit)
        q == [p EXCEPT !.key = key, !.looked = TRUE,
                       !.hit = CacheHit(d, key, n),
                       !.held = CacheGetRet(d, key, n)]
    IN IF Falsy(CacheGetRet(d, key, n))
       THEN MissPath(q, CacheGetData(d, key, n), CacheGetStats(d, s, key, n), n)
       ELSE Out([q EXCEPT !.pc = "done", !.ret = CacheGetRet(d, key, n)],
                CacheGetData(d, key, n), CacheGetStats(d, s, key, n))

\* the handler from the return of getLatestVersion
AfterLatest(p, rows, d, s, n) ==
    IF VersionsThrow(rows, p.path)
    THEN Out([p EXCEPT !.pc = "failed", !.raised = TypeErr(NoPathText),
                       !.err = handleError(TypeErr(NoPathText))], d, s)
    ELSE
    Lookup([p EXCEPT !.resolved = getLatestVersion(rows, p.path),
                     !.ver = ResolveVersion(p.version,
                                            getLatestVersion(rows, p.path))],
           d, s, n)

\* a call from the delivery of the index to its next await or its end
AfterIndex(p, rows, d, s, n) ==
    IF p.api = SearchApi
    THEN Out(IF searchPackages(rows, p.path).threw
             THEN [p EXCEPT !.pc = "failed", !.raised = TypeErr(NoPathText),
                            !.err = TypeErr(NoPathText)]
             ELSE [p EXCEPT !.pc = "done",
                     !.ret = [tag |-> "results",
                              items |-> searchPackages(rows, p.path).items]],
             d, s)
    ELSE IF p.api \in IndexApis \ {"getIndex"} /\ VersionsThrow(rows, p.path)
    THEN Out([p EXCEPT !.pc = "failed", !.raised = TypeErr(NoPathText),
                       !.err = TypeErr(NoPathText)], d, s)
    ELSE IF p.api \in IndexApis
    THEN Out([p EXCEPT !.pc = "done", !.ret = IndexResult(p.api, rows, p.path)],
             d, s)
    ELSE IF p.api = "get_package_versions" THEN AfterVersions(p, rows, d, s, n)
    ELSE AfterLatest(p, rows, d, s, n)

\* the handler from its start to its first await or its end
StartTool_resolvesAlways(p, d, s, n) ==
    IF p.api \in VersionedTools
    THEN IF EnterGetIndex([p EXCEPT !.lat = @ + 1]).pc = "gotIndex"
         THEN AfterLatest(EnterGetIndex([p EXCEPT !.lat = @ + 1]),
                          cachedIndex.rows, d, s, n)
         ELSE Out(EnterGetIndex([p EXCEPT !.lat = @ + 1]), d, s)
    ELSE Lookup([p EXCEPT !.ver = NoStr], d, s, n)
\* default: throw new McpError(ErrorCode.MethodNotFound, `Unknown tool: ${name}`)
UnknownTool(name) == McpError("MethodNotFound", <<"Unknown tool: ", name>>)
StartTool(p, d, s, n) ==
    IF p.api \notin Tools
    THEN Out([p EXCEPT !.pc = "failed", !.raised = UnknownTool(p.api),
                       !.err = handleError(UnknownTool(p.api))], d, s)
    ELSE IF p.api \in VersionedTools /\ p.version = Some(Latest)
    THEN IF EnterGetIndex([p EXCEPT !.lat = @ + 1]).pc = "gotIndex"
         THEN AfterLatest(EnterGetIndex([p EXCEPT !.lat = @ + 1]),
                          cachedIndex.rows, d, s, n)
         ELSE Out(EnterGetIndex([p EXCEPT !.lat = @ + 1]), d, s)
    ELSE Lookup([p EXCEPT !.ver = IF p.api \in VersionedTools
                                  THEN p.version ELSE NoStr], d, s, n)

\* the call of r has reached its next await, or has returned or thrown
Settle(r, out) ==
    /\ data' = out.d
    /\ stats' = out.s
    /\ IF out.p.pc \in {"done", "failed"}
       THEN /\ last' = Returns(out.p)
            /\ proc' = [proc EXCEPT ![r] = Idle]
       ELSE /\ proc' = [proc EXCEPT ![r] = out.p]
            /\ last' = NoCall

FetchCapOk(p) ==
    p.net = 0 \/ Len(refreshLog) + Cardinality(InFlight) < MaxRefresh
NotLooked == {r \in Procs : r \in InFlight /\ ~proc[r].looked
                            /\ proc[r].api \in Tools}

\* a direct call of a public method of the index client
IndexCall(r, api, path) ==
    /\ CanStart(r)
    /\ LET p == EnterGetIndex([Idle EXCEPT !.api = api, !.path = path]) IN
        /\ FetchCapOk(p)
        /\ Settle(r, IF p.pc = "gotIndex"
                     THEN AfterIndex(p, cachedIndex.rows, data, stats, now)
                     ELSE Out(p, data, stats))
    /\ UNCHANGED <<now, lastSet, remote, cachedIndex, lastFetchTime, refreshLog>>

\* a tools/call request arrives
CallTool(r, tool, path, version, sym, limit) ==
    /\ CanStart(r)
    /\ stats.hits + stats.misses + Cardinality(NotLooked) < MaxGets
    /\ LET out == StartTool([Idle EXCEPT !.api = tool, !.path = path,
                                !.version = version, !.sym = sym,
                                !.limit = limit], data, stats, now) IN
        /\ FetchCapOk(out.p)
        /\ Settle(r, out)
    /\ UNCHANGED <<now, lastSet, remote, cachedIndex, lastFetchTime, refreshLog>>

\* what the caller of a failed call sees: the handler's catch maps the error
Thrown(p, e) == IF p.api \in Tools THEN handleError(e) ELSE e

\* the call of r ends with the error e raised under it
Fails(r, e, how) ==
    /\ last' = Returns([proc[r] EXCEPT !.pc = "failed", !.raised = e,
                            !.how = how, !.err = Thrown(proc[r], e)])
    /\ proc' = [proc EXCEPT ![r] = Idle]

\* the name under which the history of a call records a network outcome
HowOf(net) ==
    IF net.kind # "response" THEN net.kind
    ELSE IF net.status = 404 THEN "404" ELSE "httpError"

\* the catch block of fetchIndex
IndexCatch(error) ==
    IF error.kind = "AbortError" THEN PlainError(<<"Module index fetch timeout">>)
    ELSE PlainError(<<"Failed to fetch module index: ">> \o error.message)

\* the response head of a feed fetch arrives with an ok status
IndexHead(r) ==
    /\ proc[r].pc = "indexFetch"
    /\ proc' = [proc EXCEPT ![r].pc = "indexBody"]
    /\ last' = NoCall
    /\ UNCHANGED <<now, data, stats, lastSet, remote, cachedIndex,
                   lastFetchTime, refreshLog>>

\* a feed fetch succeeds: fetchIndex parses the body, getIndex assigns the
\* snapshot and the time it read at its start, and the caller goes on
ParseFailure == <<"Failed to fetch module index">>
IndexFetchOk(r) ==
    /\ r \in InFlight
    /\ IF fetchIndex(remote).threw
       THEN /\ last' = Returns([proc[r] EXCEPT
                            !.pc = "failed", !.got = TRUE, !.how = "ok",
                            !.raised = PlainError(ParseFailure),
                            !.err = Thrown(proc[r], PlainError(ParseFailure))])
            /\ proc' = [proc EXCEPT ![r] = Idle]
            /\ UNCHANGED <<data, stats, cachedIndex, lastFetchTime, refreshLog>>
       ELSE /\ cachedIndex' = Index(fetchIndex(remote).modules)
            /\ lastFetchTime' = RefreshTime(lastFetchTime, proc[r])
            /\ refreshLog' = Append(refreshLog,
                    [start |-> proc[r].rnow, alone |-> proc[r].alone])
            /\ Settle(r, AfterIndex([proc[r] EXCEPT !.got = TRUE, !.how = "ok"],
                            fetchIndex(remote).modules, data, stats, now))
    /\ UNCHANGED <<now, lastSet, remote>>

\* a feed fetch fails: the timer aborts it, the transport fails, the status
\* is not ok, or the body cannot be read
IndexFailures == {Aborted, FetchRejected, BodyRejected, Response(500, <<>>)}
fetchIndexFailure(net) ==
    CASE net.kind = "abort" -> IndexCatch(AbortError)
      [] net.kind = "rejected" -> IndexCatch(TypeErr(<<"fetch failed">>))
      [] net.kind = "bodyRejected" -> IndexCatch(TypeErr(<<"terminated">>))
      [] OTHER -> IndexCatch(PlainError(<<"HTTP ">> \o NumStr(net.status)))
IndexFetchFail(r, net) ==
    /\ r \in InFlight
    /\ net.kind # "bodyRejected" => TimerArmed(proc[r])
    /\ Fails(r, fetchIndexFailure(net), HowOf(net))
    /\ UNCHANGED <<now, data, stats, lastSet, remote, cachedIndex,
                   lastFetchTime, refreshLog>>

ExtractorApis == {"getPackageDoc", "getFunctionDoc", "getTypeDoc",
                  "searchPackages", "getPackageExamples"}
PageInFlight == {r \in Procs : proc[r].pc \in {"pageFetch", "pageBody"}}

\* a direct call of a method of the extractor
ExtractorCall(r, method, path, version, sym, limit) ==
    /\ CanStart(r)
    /\ proc' = [proc EXCEPT ![r] =
            [Idle EXCEPT !.pc = "pageFetch", !.api = method, !.path = path,
                         !.version = version, !.ver = version, !.sym = sym,
                         !.limit = limit, !.ext = 1,
                         !.url = pageUrl(method, path, version, sym, limit)]]
    /\ last' = NoCall
    /\ UNCHANGED <<now, data, stats, lastSet, remote, cachedIndex,
                   lastFetchTime, refreshLog>>

\* the response head of a page fetch arrives with an ok status
PageHead(r) ==
    /\ proc[r].pc = "pageFetch"
    /\ proc' = [proc EXCEPT ![r].pc = "pageBody"]
    /\ last' = NoCall
    /\ UNCHANGED <<now, data, stats, lastSet, remote, cachedIndex,
                   lastFetchTime, refreshLog>>

\* the body of a page arrives: the extractor returns or throws, and the
\* handler stores what it returned
PageFetchOk(r, page) ==
    /\ r \in PageInFlight
    /\ IF Fetched(proc[r], Response(200, page)).threw
       THEN /\ last' = Returns([proc[r] EXCEPT !.pc = "failed", !.how = "ok",
                        !.page = page,
                        !.raised = Fetched(proc[r], Response(200, page)).err,
                        !.err = Thrown(proc[r],
                                  Fetched(proc[r], Response(200, page)).err)])
            /\ proc' = [proc EXCEPT ![r] = Idle]
            /\ UNCHANGED <<data, stats>>
       ELSE /\ data' = IF proc[r].api \in Tools
                       THEN CacheSetData(data, stats, proc[r].key,
                                Fetched(proc[r], Response(200, page)).value,
                                StoreTTL(proc[r].api), now)
                       ELSE data
            /\ stats' = IF proc[r].api \in Tools
                        THEN CacheSetStats(data, stats, proc[r].key) ELSE stats
            /\ last' = Returns([proc[r] EXCEPT !.pc = "done", !.how = "ok",
                        !.page = page,
                        !.ret = Fetched(proc[r], Response(200, page)).value])
            /\ proc' = Siblings(r, Fetched(proc[r], Response(200, page)).value)
    /\ UNCHANGED <<now, lastSet, remote, cachedIndex, lastFetchTime, refreshLog>>

\* the page fetch fails: the timer aborts it, the transport fails, the
\* status is not ok, or the body cannot be read
ErrorCodes == {"NOT_FOUND", "TIMEOUT", "NETWORK_ERROR", "PARSE_ERROR"}
PageFailures == {Aborted, FetchRejected, BodyRejected,
                 Response(404, <<>>), Response(500, <<>>)}
PageFetchFail(r, net) ==
    /\ r \in PageInFlight
    /\ net.kind # "bodyRejected" => TimerArmed(proc[r])
    /\ Fails(r, Fetched(proc[r], net).err, HowOf(net))
    /\ UNCHANGED <<now, data, stats, lastSet, remote, cachedIndex,
                   lastFetchTime, refreshLog>>

----------------------------------------------------------------------------
(* The environment of the index client *)

P == <<"p">>
Q == <<"q">>
Paths == {P, Q}

\* the feed is append-only: the registry publishes the next row
Schedule == <<Upper(P, <<"1">>, <<"1">>), Upper(P, <<"2">>, <<"2">>)>>
Publish ==
    /\ Len(remote) < Len(Schedule)
    /\ remote' = SubSeq(Schedule, 1, Len(remote) + 1)
    /\ last' = NoCall
    /\ UNCHANGED <<now, data, stats, lastSet, cachedIndex, lastFetchTime,
                   proc, refreshLog>>

\* feed bodies for the parsing and selection rules
FeedLines ==
    {Upper(P, <<"1">>, <<"2">>), Upper(P, <<"2", "-", "b">>, <<"3">>),
     Lower(P, <<"0">>, <<"1">>), Upper(P, <<"4">>, <<"2">>),
     Upper(Q, <<"3", "-", "a">>, <<"2">>),
     Obj(Some(P), NoStr, Some(<<"2">>), NoStr, NoStr, NoStr),
     Garbage, Blank, JsonNull, Scalar}
Feeds == UNION {[1..n -> FeedLines] : n \in 0..MaxLines}
\* a feed of more distinct paths than a search returns
LongFeed ==
    [i \in 1..(maxResults + 1) |->
        Upper(<<"x", "P">> \o NumStr(i), <<"1">>, <<"1">>)]
Queries == {<<>>, <<"P">>, <<"q">>, <<"p", "1">>}

----------------------------------------------------------------------------
(* Specifications *)

InitCommon ==
    /\ now = 0
    /\ data = EmptyData
    /\ stats = ZeroStats
    /\ lastSet = [k \in CacheKeys |-> NoSet]
    /\ last = NoCall
    /\ cachedIndex = NoIndex
    /\ lastFetchTime = 0
    /\ proc = [r \in Procs |-> Idle]
    /\ refreshLog = <<>>

\* the Document Cache under direct calls
InitCache == InitCommon /\ remote = <<>>
NextCache ==
    \/ \E k \in CacheKeys, v \in CacheVals, ttl \in TTLArgs : Set(k, v, ttl)
    \/ \E k \in CacheKeys : Get(k)
    \/ \E k \in CacheKeys : Has(k)
    \/ \E k \in CacheKeys : Delete(k)
    \/ Clear
    \/ GetStats
    \/ CheckData
    \/ Tick(CacheTimes)
SpecCache == InitCache /\ [][NextCache]_vars

\* one caller of the index client over every bounded feed body
InitFeed == InitCommon /\ remote \in Feeds \cup {LongFeed}
NextFeed ==
    \/ \E api \in IndexApis, path \in Paths : IndexCall(1, api, path)
    \/ \E query \in Queries : IndexCall(1, SearchApi, query)
    \/ IndexFetchOk(1)
    \/ \E net \in IndexFailures : IndexFetchFail(1, net)
SpecFeed == InitFeed /\ [][NextFeed]_vars

\* concurrent callers of the index client while time passes
InitIndex == InitCommon /\ remote = <<>>
NextIndex ==
    \/ \E r \in Procs, api \in IndexApis : IndexCall(r, api, P)
    \/ \E r \in Procs : IndexFetchOk(r)
    \/ \E r \in Procs, net \in IndexFailures : IndexFetchFail(r, net)
    \/ Publish
    \/ Tick(IndexTimes)
SpecIndex == InitIndex /\ [][NextIndex]_vars

\* the pages the tools are served: two revisions of a page that declares
\* the symbol, a page without it, and a page whose markup breaks extraction
ToolPages ==
    {Page(rev, <<Elem("function", <<"f">>, <<"s">>),
                 Elem("type", <<"f">>, <<"s">>)>>, FALSE) : rev \in PageRevs}
        \cup {Page(1, <<>>, FALSE), Page(1, <<>>, TRUE)}

Symbol == Some(<<"f">>)
Request(tool, path, version, sym, limit) ==
    [tool |-> tool, path |-> path, version |-> version, sym |-> sym,
     limit |-> limit]

\* the extractor and the index client under direct calls, with the response
\* head and the body of every fetch as separate steps
MaxElems == 2
ElemIds == {<<"f">>, <<"g">>}
\* the declaration text of an element after trim()
Sigs == {<<>>, <<"s">>, <<"t">>}
Elems == {Elem(k, i, sg) : k \in {"function", "type"}, i \in ElemIds, sg \in Sigs}
Pages ==
    {Page(1, es, b) : es \in UNION {[1..n -> Elems] : n \in 0..MaxElems},
                      b \in BOOLEAN}
ExtractorRequests ==
    {Request(m, P, v, IF m \in {"getFunctionDoc", "getTypeDoc"}
                      THEN Symbol ELSE NoStr, NoNum) :
        m \in ExtractorApis \ {"searchPackages"}, v \in {NoStr, Some(<<"1">>)}}
        \cup {Request("searchPackages", <<>>, NoStr, Symbol, Num(5))}
InitFetch == InitCommon /\ remote = Schedule
NextFetch ==
    \/ \E q \in ExtractorRequests :
            ExtractorCall(1, q.tool, q.path, q.version, q.sym, q.limit)
    \/ \E api \in IndexApis : IndexCall(1, api, P)
    \/ PageHead(1)
    \/ \E page \in Pages : PageFetchOk(1, page)
    \/ \E net \in PageFailures : PageFetchFail(1, net)
    \/ IndexHead(1)
    \/ IndexFetchOk(1)
    \/ \E net \in IndexFailures : IndexFetchFail(1, net)
SpecFetch == InitFetch /\ [][NextFetch]_vars

\* the search of the extractor under direct calls, over the pages the search
\* endpoint can answer with
MaxSnippets == 2
SnippetSels == {{1}, {2}, {3}, {4}, {1, 4}}
Hrefs == {<<>>, <<"/", "a">>, <<"/", "a", "@", "1">>, <<"/", "b", "/">>}
\* the texts of the link, of the header and of the h2 of an element
SnippetTexts == {<<<<>>, <<>>, <<>>>>, <<<<"n">>, <<>>, <<>>>>,
                 <<<<>>, <<>>, <<"h">>>>}
Snippets ==
    {Snippet(ss, href, t[1], t[2], t[3]) :
        ss \in SnippetSels, href \in Hrefs, t \in SnippetTexts}
SearchPages ==
    {SearchPage(1, items, FALSE) :
        items \in UNION {[1..n -> Snippets] : n \in 0..MaxSnippets}}
        \cup {SearchPage(1, <<>>, TRUE)}
SearchLimits == {NoNum, Num(1)}
InitSearch == InitCommon /\ remote = Schedule
NextSearch ==
    \/ \E limit \in SearchLimits :
            ExtractorCall(1, "searchPackages", <<"q">>, NoStr, NoStr, limit)
    \/ PageHead(1)
    \/ \E page \in SearchPages : PageFetchOk(1, page)
    \/ \E net \in PageFailures : PageFetchFail(1, net)
SpecSearch == InitSearch /\ [][NextSearch]_vars

\* the tool handler under concurrent requests
Requests ==
    {Request("get_package_doc", P, NoStr, NoStr, NoNum),
     Request("get_package_doc", P, Some(Latest), NoStr, NoNum),
     Request("get_package_doc", P, Some(<<"1">>), NoStr, NoNum),
     Request("get_function_doc", P, Some(Latest), Symbol, NoNum),
     Request("get_type_doc", P, Some(<<"1">>), Symbol, NoNum),
     Request("get_package_examples", P, NoStr, NoStr, NoNum),
     Request("search_packages", <<>>, NoStr, Symbol, NoNum),
     Request("get_package_versions", P, NoStr, NoStr, NoNum)}
ToolTimes == {0, 300001}
\* one network outcome for each kind of failure that reaches the handler
ToolIndexFailures == {Aborted}
ToolPageFailures == {Aborted, FetchRejected, Response(404, <<>>)}
\* the feed is empty or carries the published rows
Init == InitCommon /\ remote \in {<<>>, Schedule}
Next ==
    \/ \E r \in Procs, q \in Requests :
            CallTool(r, q.tool, q.path, q.version, q.sym, q.limit)
    \/ \E r \in Procs : IndexFetchOk(r)
    \/ \E r \in Procs, net \in ToolIndexFailures : IndexFetchFail(r, net)
    \/ \E r \in Procs, page \in ToolPages : PageFetchOk(r, page)
    \/ \E r \in Procs, net \in ToolPageFailures : PageFetchFail(r, net)
    \/ CheckData
    \/ Tick(ToolTimes)
Spec == Init /\ [][Next]_vars

\* the tool handler serving one request at a time, over every shape of the
\* arguments that enter the cache key
KeyRequests ==
    {Request(tool, P, v, IF tool \in SymbolTools THEN Symbol ELSE NoStr, NoNum) :
        tool \in VersionedTools,
        v \in {NoStr, Some(<<>>), Some(<<"1">>), Some(Latest)}}
    \cup {Request("search_packages", <<>>, NoStr, Symbol, l) :
            l \in {NoNum, Num(0), Num(5)}}
    \cup {Request("get_package_versions", path, NoStr, NoStr, NoNum) :
            path \in Paths}
    \cup {Request("get_package", P, NoStr, NoStr, NoNum)}
    \cup {Request("get_function_doc", P, NoStr, Some(<<"a", ":", "b">>), NoNum),
          Request("get_function_doc", <<"p", ":", "a">>, NoStr, Some(<<"b">>),
                  NoNum),
          Request("get_package_doc", <<"p", "@", "1">>, NoStr, NoStr, NoNum)}
\* the pages of the tool requests, and one that declares the function a:b
KeyPages ==
    ToolPages \cup {Page(1, <<Elem("function", <<"a", ":", "b">>, <<"s">>)>>,
                         FALSE)}
InitKey == InitCommon /\ remote = Schedule
NextKey ==
    \/ \E q \in KeyRequests :
            CallTool(1, q.tool, q.path, q.version, q.sym, q.limit)
    \/ IndexFetchOk(1)
    \/ \E page \in KeyPages : PageFetchOk(1, page)
SpecKey == InitKey /\ [][NextKey]_vars

----------------------------------------------------------------------------
(* C1: a get of k made less than t seconds after a successful              *)
(* set(k, v, t), with no delete, clear or set of k in between, returns v;  *)
(* a get made more than t seconds after it returns undefined.  Without a   *)
(* TTL argument the configured default TTL is t.                           *)

ClaimedTTL(ttl) == IF ttl.def THEN ttl.n ELSE stdTTL
SetInForce(k) == lastSet[k].def /\ ClaimedTTL(lastSet[k].ttl) > 0
JustGot(k) == last.op = "get" /\ last.key = k

C1_SetThenGet ==
    \A k \in CacheKeys :
        JustGot(k) /\ SetInForce(k) =>
            /\ now - lastSet[k].at < ClaimedTTL(lastSet[k].ttl) * 1000
                    => last.ret = lastSet[k].v
            /\ now - lastSet[k].at > ClaimedTTL(lastSet[k].ttl) * 1000
                    => last.ret = Undefined

C1_Witness ==
    \E k \in CacheKeys :
        /\ JustGot(k) /\ SetInForce(k)
        /\ lastSet[k].ttl = Num(searchTTL)
        /\ now - lastSet[k].at > searchTTL * 1000
        /\ now - lastSet[k].at < stdTTL * 1000
        /\ last.ret = Undefined

(* C11: hits and misses start at zero, a get that returns a payload adds   *)
(* one to hits and nothing to misses, a get that finds nothing adds one to *)
(* misses and nothing to hits, clear sets both to zero, and set, has,      *)
(* delete and getStats change neither.                                     *)
CountsStep ==
    /\ last'.op = "get" /\ last'.ret # Undefined =>
            stats'.hits = stats.hits + 1 /\ stats'.misses = stats.misses
    /\ last'.op = "get" /\ last'.ret = Undefined =>
            stats'.hits = stats.hits /\ stats'.misses = stats.misses + 1
    /\ last'.op = "clear" => stats'.hits = 0 /\ stats'.misses = 0
    /\ last'.op \in {"set", "has", "delete", "getStats"} =>
            stats'.hits = stats.hits /\ stats'.misses = stats.misses
    /\ last'.op = "getStats" =>
            last'.ret.hits = stats.hits /\ last'.ret.misses = stats.misses
C11_StatsCountGets ==
    /\ stats.hits = 0 /\ stats.misses = 0
    /\ [][CountsStep]_vars

\* a get has found an expired entry after a get that returned a payload
C11_Witness ==
    /\ last.op = "get" /\ last.ret = Undefined
    /\ last.key \notin DOMAIN data
    /\ lastSet[last.key].def
    /\ stats.hits = 1 /\ stats.misses = 1

(* C12: the store never holds more keys than the maximum it was            *)
(* constructed with, and getStats never reports more.                      *)
C12_CapacityBound ==
    /\ Cardinality(DOMAIN data) <= MaxKeys
    /\ stats.keys <= MaxKeys
    /\ last.op = "getStats" => last.ret.keys <= MaxKeys

\* a set was refused on a full store
C12_Witness ==
    /\ last.op = "set" /\ ~last.ret
    /\ Cardinality(DOMAIN data) = MaxKeys

----------------------------------------------------------------------------
(* Claims about the index client read the snapshot it holds *)

Rows == cachedIndex.rows
RowsOfPath(path) == {i \in 1..Len(Rows) : Rows[i].path = Some(path)}
StableRows(path) ==
    {i \in RowsOfPath(path) :
        "-" \notin {Rows[i].version.s[j] : j \in 1..Len(Rows[i].version.s)}}
Newest(S) ==
    {i \in S : \A k \in S :
        getTime(Rows[i].timestamp) >= getTime(Rows[k].timestamp)}
Returned(api) ==
    last.op = "call" /\ last.call.api = api /\ last.call.pc = "done"

EntryOfRow(i) == [version |-> Rows[i].version, timestamp |-> Rows[i].timestamp]
ParsingLines == {i \in 1..Len(remote) :
                    remote[i].kind \notin {"garbage", "blank", "null"}}
RowFromLine(row, l) ==
    l.kind = "object" =>
        /\ row.path = Or(l.Path, l.path)
        /\ row.version = Or(l.Version, l.version)
        /\ row.timestamp = Or(l.Timestamp, l.timestamp)
FetchedIndex ==
    last.op = "call" /\ last.call.api = "getIndex" /\ last.call.got

C10_BadLinesSkipped ==
    FetchedIndex =>
        /\ last.call.pc = "done"
        /\ Len(last.call.ret.rows) = Cardinality(ParsingLines)
        /\ \A i \in ParsingLines :
            RowFromLine(
                last.call.ret.rows[Cardinality({k \in ParsingLines : k <= i})],
                remote[i])

C10_Witness ==
    /\ FetchedIndex
    /\ last.call.pc = "done"
    /\ Len(remote) = 3
    /\ remote[1].kind = "object" /\ remote[3].kind = "object"
    /\ remote[2].kind = "garbage"
    /\ Len(last.call.ret.rows) = 2

(* C8: a getIndex entered while a snapshot is held and less than one hour  *)
(* has passed since lastFetchTime returns that snapshot and fetches        *)
(* nothing; so does every method built on getIndex.                        *)
EnteredFresh(p) ==
    /\ p.api \in IndexApis
    /\ p.seen.def
    /\ p.seenAt - p.seenLft < 3600000

C8_FreshSnapshotServed ==
    /\ \A r \in Procs : ~EnteredFresh(proc[r])
    /\ last.op = "call" /\ EnteredFresh(last.call) =>
            /\ last.call.net = 0
            /\ last.call.pc = "done"
            /\ last.call.api = "getIndex" =>
                    last.call.ret.rows = last.call.seen.rows

C8_Witness ==
    /\ last.op = "call" /\ EnteredFresh(last.call)
    /\ last.call.api = "getIndex"
    /\ last.call.seenAt > last.call.seenLft
    /\ last.call.pc = "done"
    /\ last.call.ret.rows = last.call.seen.rows
    /\ fetchIndex(remote).modules # last.call.seen.rows

(* C9, as claimed: any two feed fetches that replaced the snapshot began   *)
(* at least one hour apart.                                                *)
HourApart(a, b) == a - b >= 3600000 \/ b - a >= 3600000
----------------------------------------------------------------------------
(* Claims about the tool handler read the call that has just returned and  *)
(* the calls suspended on the network                                      *)

ToolReturned == last.op = "call" /\ last.call.api \in Tools
Succeeded == ToolReturned /\ last.call.pc = "done"
Suspended == {r \in Procs : proc[r].api \in Tools}
Fetches(p) == p.ext + p.idx

(* C2: a request whose lookup finds an unexpired entry under its key       *)
(* returns that entry's payload at once: it is never suspended, and it     *)
(* has called neither the extractor nor getPackageVersions.                *)
C2_HitReturnsPayload ==
    /\ \A r \in Suspended : ~proc[r].hit
    /\ ToolReturned /\ last.call.hit =>
            /\ last.call.pc = "done"
            /\ last.call.ret = last.call.held
            /\ Fetches(last.call) = 0

(* C3: a request that missed and whose fetch succeeded leaves its result   *)
(* in the cache under the key it looked up, with 300 s for search and      *)
(* versions results and the default TTL for the others.                    *)
ExpectedTTL(tool) ==
    IF tool \in {"search_packages", "get_package_versions"} THEN 300 ELSE stdTTL
C3_MissStoresResult ==
    Succeeded /\ ~last.call.hit =>
        /\ last.call.key \in DOMAIN data
        /\ data[last.call.key].v.data = last.call.ret
        /\ data[last.call.key].v.ttl = ExpectedTTL(last.call.api)
        /\ data[last.call.key].t = now + ExpectedTTL(last.call.api) * 1000

(* C4: requests under one key that all missed before any of their fetches  *)
(* completed are each suspended on a fetch of their own, and a request     *)
(* that missed and returned a result made exactly one fetch of its own.    *)
Missed(r) == r \in Suspended /\ proc[r].looked
C4_NoDeduplication ==
    /\ \A r1, r2 \in Procs :
            r1 # r2 /\ Missed(r1) /\ Missed(r2) /\ proc[r1].key = proc[r2].key
                => Fetches(proc[r1]) = 1 /\ Fetches(proc[r2]) = 1
    /\ Succeeded /\ ~last.call.hit => Fetches(last.call) = 1

C4_Witness ==
    \E r1, r2 \in Procs :
        /\ r1 # r2 /\ proc[r1].key = proc[r2].key
        /\ proc[r1].pc = "pageFetch" /\ proc[r2].pc = "pageFetch"
        /\ proc[r1].ext = 1 /\ proc[r2].ext = 1

(* C5: a request passing "latest" builds its key and its page from the     *)
(* latest version of the index for its path, or from no version when the   *)
(* path has no rows, and then does not fail in the handler; any other      *)
(* version is used as passed and the index is not consulted.               *)
LatestInIndex(path) ==
    IF RowsOfPath(path) = {} THEN {NoStr}
    ELSE {Rows[i].version :
            i \in Newest(IF StableRows(path) # {} THEN StableRows(path)
                             ELSE RowsOfPath(path))}
UsedVersions(p) ==
    IF p.version = Some(Latest) THEN LatestInIndex(p.path) ELSE {p.version}
UsesVersion(p) ==
    /\ p.looked =>
        \E v \in UsedVersions(p) :
            /\ p.key = cacheKey(p.api, p.path, v, p.sym, p.limit)
            /\ p.ext > 0 => p.url = pageUrl(p.api, p.path, v, p.sym, p.limit)
    /\ p.version # Some(Latest) => p.lat = 0 /\ p.net = 0 /\ p.looked
    /\ p.version = Some(Latest) /\ p.looked => p.lat = 1
    /\ p.pc = "failed" /\ p.looked => p.ext = 1
C5_LatestResolved ==
    /\ \A r \in Suspended : proc[r].api \in VersionedTools => UsesVersion(proc[r])
    /\ ToolReturned /\ last.call.api \in VersionedTools => UsesVersion(last.call)

C5_Witness ==
    /\ Succeeded /\ last.call.api \in VersionedTools
    /\ last.call.version = Some(Latest)
    /\ last.call.resolved = NoStr /\ last.call.lat = 1
    /\ last.call.key = cacheKey(last.call.api, last.call.path, NoStr,
                                last.call.sym, last.call.limit)

(* C17: a tool call that fails under a NOT_FOUND error reaches the client  *)
(* as an invalid-request error with the message of that error; one that    *)
(* fails under TIMEOUT, NETWORK_ERROR or PARSE_ERROR reaches it as an      *)
(* internal error whose message is one of two fixed texts, chosen by the   *)
(* kind alone.                                                             *)
TimeoutText == <<"Request timeout">>
GenericText == <<"An error occurred while fetching documentation">>
ToolFailed == ToolReturned /\ last.call.pc = "failed"
C17_ErrorMapping ==
    ToolFailed =>
        /\ last.call.raised.code = "NOT_FOUND" =>
                /\ last.call.err.code = "InvalidRequest"
                /\ last.call.err.message = last.call.raised.message
        /\ last.call.raised.code \in ErrorCodes \ {"NOT_FOUND"} =>
                /\ last.call.err.code = "InternalError"
                /\ last.call.err.message =
                        IF last.call.raised.code = "TIMEOUT"
                        THEN TimeoutText ELSE GenericText
                /\ last.call.err.message # last.call.raised.message

C17_Witness ==
    /\ ToolFailed /\ last.call.raised.code = "NETWORK_ERROR"
    /\ last.call.raised.details.kind = "TypeError"
    /\ last.call.err = McpError("InternalError", GenericText)

(* C18 as claimed: the key is <kind>:<path>, with @<version> when a        *)
(* version is in effect and :<symbol> for function and type lookups, and   *)
(* nothing else enters it; for a search the path is the query.             *)
ClaimedKind(api) ==
    CASE api = "get_package_doc" -> "package"
      [] api = "get_function_doc" -> "function"
      [] api = "get_type_doc" -> "type"
      [] api = "search_packages" -> "search"
      [] api = "get_package_examples" -> "examples"
      [] OTHER -> "versions"
ClaimedKey(p) ==
    <<ClaimedKind(p.api), ":">>
        \o (IF p.api = "search_packages" THEN p.sym.s ELSE p.path)
        \o (IF p.ver.def /\ p.ver.s # <<>> THEN <<"@">> \o p.ver.s ELSE <<>>)
        \o (IF p.api \in {"get_function_doc", "get_type_doc"}
            THEN <<":">> \o p.sym.s ELSE <<>>)
Looked == {r \in Suspended : proc[r].looked}
C18_KeyScheme ==
    /\ \A r \in Looked : proc[r].key = ClaimedKey(proc[r])
    /\ ToolReturned /\ last.call.looked => last.call.key = ClaimedKey(last.call)

(* C18 as amended: the same, except that the key of a search is            *)
(* search:<query>:<limit>, where limit is the requested limit, or 10 when  *)
(* none or zero was passed.                                                *)
SearchLimit(p) ==
    IF p.limit.def /\ p.limit.n # 0 THEN NumStr(p.limit.n) ELSE <<"1", "0">>
AmendedKey(p) ==
    IF p.api = "search_packages"
    THEN ClaimedKey(p) \o <<":">> \o SearchLimit(p) ELSE ClaimedKey(p)
C18_KeySchemeWithLimit ==
    /\ \A r \in Looked : proc[r].key = AmendedKey(proc[r])
    /\ ToolReturned /\ last.call.looked => last.call.key = AmendedKey(last.call)

C18_Witness ==
    /\ Succeeded /\ last.call.api = "get_function_doc"
    /\ last.call.version = Some(Latest)
    /\ last.call.key = <<"function", ":", "p", "@", "2", ":", "f">>

----------------------------------------------------------------------------
(* Claims about the extractor and the index client under direct calls      *)

Contains(str, sub) ==
    \E i \in 0..(Len(str) - Len(sub)) : SubSeq(str, i + 1, i + Len(sub)) = sub
Failed == last.op = "call" /\ last.call.pc = "failed"
ExtractorFailed == Failed /\ last.call.api \in ExtractorApis

(* C13: a page fetch answered 404 fails with NOT_FOUND and a message that  *)
(* names the package path; one aborted by the timer fails with TIMEOUT;    *)
(* every other transport failure, a non-404 error status included, fails   *)
(* with NETWORK_ERROR and the underlying error in details.                 *)
C13_PageFailureKinds ==
    ExtractorFailed =>
        /\ last.call.how = "404" =>
                /\ last.call.err.code = "NOT_FOUND"
                /\ last.call.path # <<>>
                        => Contains(last.call.err.message, last.call.path)
        /\ last.call.how = "abort" => last.call.err.code = "TIMEOUT"
        /\ last.call.how \in {"rejected", "bodyRejected", "httpError"} =>
                /\ last.call.err.code = "NETWORK_ERROR"
                /\ last.call.err.details.kind \in {"Error", "TypeError"}
                /\ last.call.how = "httpError" =>
                        last.call.err.details.message = <<"HTTP ", "5", "0", "0">>

C13_Witness ==
    /\ ExtractorFailed /\ last.call.how = "httpError"
    /\ last.call.err.code = "NETWORK_ERROR"
    /\ last.call.err.details.kind = "Error"

(* C14: every failure of a method of the extractor or of the index client  *)
(* carries a kind tag out of NOT_FOUND, TIMEOUT, NETWORK_ERROR,            *)
(* PARSE_ERROR.                                                            *)
C14_FailuresTagged ==
    Failed /\ last.call.api \in ExtractorApis \cup IndexApis =>
        last.call.err.code \in ErrorCodes

(* C15: every fetch that is pending can still be aborted by its timer, and *)
(* a fetch the timer aborted fails with TIMEOUT.                           *)
C15_FetchBoundByTimeout ==
    /\ \A r \in InFlight \cup PageInFlight : TimerArmed(proc[r])
    /\ Failed /\ last.call.how = "abort" => last.call.err.code = "TIMEOUT"

(* C16: on a fetched page that extraction can read, a function or type     *)
(* lookup returns a non-empty text when some element of the kind with the  *)
(* requested id has a non-empty text, and fails with NOT_FOUND, unwrapped  *)
(* and naming the symbol and the package, exactly when no such element     *)
(* has.                                                                    *)
LookupKind(api) == IF api = "getFunctionDoc" THEN "function" ELSE "type"
WithText(p) ==
    {i \in 1..Len(p.page.elems) :
        /\ p.page.elems[i].kind = LookupKind(p.api)
        /\ p.page.elems[i].id = p.sym.s
        /\ p.page.elems[i].sig # <<>>}
C16_SymbolLookup ==
    /\ last.op = "call" /\ last.call.api \in {"getFunctionDoc", "getTypeDoc"}
    /\ last.call.how = "ok" /\ ~last.call.page.breaks
    => /\ WithText(last.call) # {} =>
            last.call.pc = "done" /\ last.call.ret.text # <<>>
       /\ WithText(last.call) = {} =>
            /\ last.call.pc = "failed"
            /\ last.call.err = GoDocError("NOT_FOUND", last.call.err.message)
            /\ Contains(last.call.err.message, last.call.sym.s)
            /\ Contains(last.call.err.message, last.call.path)


(* C19: a search of the index gives at most 50 results; every returned     *)
(* path contains the query when both are lower-cased; no path is returned  *)
(* twice; every result has a non-empty latest; and when at most 50         *)
(* distinct paths of the snapshot match, each of them is returned.         *)
SearchEnded ==
    /\ last.op = "call" /\ last.call.api = SearchApi
    /\ last.call.pc \in {"done", "failed"}
SearchItems == last.call.ret.items
SearchHit(path) ==
    Contains(toLowerCase(path), toLowerCase(last.call.path))
MatchingPaths ==
    {Rows[i].path.s :
         i \in {j \in 1..Len(Rows) :
                    Rows[j].path.def /\ SearchHit(Rows[j].path.s)}}
SearchResultsOk ==
    /\ Len(SearchItems) <= 50
    /\ \A i \in 1..Len(SearchItems) : SearchHit(SearchItems[i].path)
    /\ \A i, j \in 1..Len(SearchItems) :
           i # j => SearchItems[i].path # SearchItems[j].path
    /\ \A i \in 1..Len(SearchItems) : SearchItems[i].latest # <<>>
C19_IndexSearch ==
    SearchEnded =>
        /\ Returned(SearchApi) => SearchResultsOk
        /\ Cardinality(MatchingPaths) <= 50 =>
               \A path \in MatchingPaths :
                   /\ Returned(SearchApi)
                   /\ \E i \in 1..Len(SearchItems) : SearchItems[i].path = path
\* the same, of the searches that return: it holds
C19_ReturnedSearch ==
    Returned(SearchApi) =>
        /\ SearchResultsOk
        /\ Cardinality(MatchingPaths) <= 50 =>
               \A path \in MatchingPaths :
                   \E i \in 1..Len(SearchItems) : SearchItems[i].path = path
\* a search over more than 50 matching paths whose match needs both the
\* query and the paths lower-cased
C19_ReturnedCapped ==
    /\ Returned(SearchApi)
    /\ Cardinality(MatchingPaths) > 50
    /\ Len(SearchItems) = 50
    /\ last.call.path # toLowerCase(last.call.path)
    /\ SearchItems[1].path # toLowerCase(SearchItems[1].path)
\* a search that returns every matching path, one of them held by several rows
C19_ReturnedAll ==
    /\ Returned(SearchApi)
    /\ MatchingPaths # {}
    /\ Len(SearchItems) = Cardinality(MatchingPaths)
    /\ Len(MatchingRows(Rows, last.call.path)) > Len(SearchItems)
\* a search that ends with an error although a path of the snapshot matches
C19_SearchThrows ==
    SearchEnded /\ last.call.pc = "failed" /\ MatchingPaths # {}


(* C20: no tool request has a network request made for it before its cache *)
(* lookup, and a request whose lookup finds an unexpired entry ends        *)
(* without any network request.                                            *)
OnNetwork(p) == p.pc \in {"indexFetch", "indexBody", "pageFetch", "pageBody"}
AsksLatest(p) == p.api \in VersionedTools /\ p.version = Some(Latest)
C20_WitnessExplicit ==
    /\ Succeeded /\ last.call.api \in VersionedTools
    /\ last.call.version = Some(<<"1">>)
    /\ last.call.hit /\ ~Falsy(last.call.held) /\ last.call.net = 0


(* Claims about the search of the extractor *)

SearchReturned == Returned("searchPackages")
FoundItems == last.call.ret.items
\* the limit in force: the argument, 10 when it is left out
LimitInForce == IF last.call.limit.def THEN last.call.limit.n ELSE 10

(* C21: a search of the extractor returns at most limit results, whatever  *)
(* page the search endpoint answered with.                                 *)
C21_AtMostLimit == SearchReturned => Len(FoundItems) <= LimitInForce
\* a search with limit 1 that returned the two paths of its page
C21_OverLimit ==
    /\ SearchReturned /\ last.call.limit = Num(1)
    /\ Len(FoundItems) = 2

(* C27: the search takes its results from the first of the four selectors, *)
(* in their fixed order, that matches any element of the page, whether or  *)
(* not the elements it matches yield a path and a name; so all results of  *)
(* one response come from one selector, and no two of them share a path.   *)
PageItems == last.call.page.items
MatchedBy(k) == {j \in 1..Len(PageItems) : k \in PageItems[j].sels}
FirstMatching ==
    IF \E k \in 1..4 : MatchedBy(k) # {}
    THEN CHOOSE k \in 1..4 :
            MatchedBy(k) # {} /\ \A h \in 1..(k - 1) : MatchedBy(h) = {}
    ELSE 0
Usable(j) ==
    SnippetPath(PageItems[j].href) # <<>> /\ SnippetName(PageItems[j]) # <<>>
ResultOf(i, j) ==
    /\ Usable(j)
    /\ FoundItems[i].path = SnippetPath(PageItems[j].href)
OneSelector ==
    \E k \in 1..4 : \A i \in 1..Len(FoundItems) : \E j \in MatchedBy(k) :
        ResultOf(i, j)
C27_FirstMatchingSelector ==
    SearchReturned =>
        /\ \A i \in 1..Len(FoundItems) :
               \E j \in MatchedBy(FirstMatching) : ResultOf(i, j)
        /\ \A j \in MatchedBy(FirstMatching) :
               Usable(j) => \E i \in 1..Len(FoundItems) : ResultOf(i, j)
        /\ OneSelector
        /\ \A i, j \in 1..Len(FoundItems) :
               i # j => FoundItems[i].path # FoundItems[j].path
\* the parts of C27 that hold: one selector, no path twice
C27_OneSelectorNoDuplicates ==
    SearchReturned =>
        /\ OneSelector
        /\ \A i, j \in 1..Len(FoundItems) :
               i # j => FoundItems[i].path # FoundItems[j].path
\* a search that passed over a selector whose elements gave no result
C27_PassedOver ==
    /\ SearchReturned /\ FoundItems # <<>>
    /\ \A i \in 1..Len(FoundItems) :
           ~\E j \in MatchedBy(FirstMatching) : ResultOf(i, j)


(* C22: no step of another request falls between the freshness check of a *)
(* getIndex call and its assignment of the snapshot and of the            *)
(* last-refresh time: while a call is between the two, the snapshot and   *)
(* the last-refresh time are the ones its check read.                     *)
C22_CheckThenAssign ==
    \A r \in InFlight :
        /\ cachedIndex = proc[r].seen
        /\ lastFetchTime = proc[r].seenLft
\* a call suspended on its feed fetch while the snapshot its check found
\* absent has been assigned by another call
C22_Interleaved ==
    \E r \in InFlight : ~proc[r].seen.def /\ cachedIndex.def


(* C28: the last-refresh time never decreases, and the snapshot is never   *)
(* replaced by the result of a fetch that started before the fetch that    *)
(* produced the snapshot held.                                             *)
Refreshes == Len(refreshLog)
InOrderStep ==
    /\ lastFetchTime' >= lastFetchTime
    /\ (Refreshes > 0 /\ refreshLog' # refreshLog) =>
           refreshLog'[Len(refreshLog')].start >= refreshLog[Refreshes].start
C28_RefreshesInOrder == [][InOrderStep]_vars
\* the snapshot of a fetch started at instant 1 has been replaced by that of
\* a fetch started at instant 0, and the last-refresh time is back at 0
C28_OutOfOrder ==
    /\ Refreshes = 2
    /\ refreshLog[1].start = 1 /\ refreshLog[2].start = 0
    /\ lastFetchTime = 0


(* C23: requests for one package started together on an empty cache all   *)
(* obtain equal documents, and the cache spares at least one fetch: once   *)
(* they have completed, the hit counter is above zero.                     *)
Overlapped == Succeeded /\ last.call.sib.def
BatchDone == \A r \in Suspended : proc[r].key # last.call.key
FailsNow ==
    /\ last'.op = "call" /\ last'.call.api \in Tools
    /\ last'.call.pc = "failed" /\ last'.call.raised.kind # "McpError"
SuspendsNow(r) ==
    /\ proc'[r].api \in Tools
    /\ proc'[r].pc # proc[r].pc /\ proc'[r].pc # "idle"
Kept ==
    /\ DOMAIN data' \subseteq DOMAIN data
    /\ \A k \in DOMAIN data' : data'[k] = data[k]
    /\ \A k \in DOMAIN data : Alive(data[k], now) => k \in DOMAIN data'
FrameStep ==
    /\ FailsNow =>
           /\ data' = data /\ stats' = stats
           /\ last'.call.ret = Undefined
           /\ last'.call.err = handleError(last'.call.raised)
    /\ (\E r \in Procs : SuspendsNow(r)) => Kept
C24_FailureLeavesCache == [][FrameStep]_vars
\* a request failed on its page fetch while the cache held a live entry
\* under another key; nothing is held under the key of the failed request
C24_Witness ==
    /\ ToolFailed /\ last.call.looked /\ last.call.ext = 1
    /\ last.call.raised.code \in ErrorCodes
    /\ last.call.key \notin DOMAIN data
    /\ \E k \in DOMAIN data : Alive(data[k], now)


(* C25: a protocol error raised inside the tool dispatch reaches the       *)
(* client with the class and the message it was raised with: invalid       *)
(* request naming the package for a versions request on a package without  *)
(* rows, method not found naming the tool for an unknown tool.             *)
ProtocolErrorRaised ==
    /\ last.op = "call" /\ last.call.pc = "failed"
    /\ last.call.raised.kind = "McpError"
C25_ProtocolErrorsReachClient ==
    ProtocolErrorRaised =>
        /\ last.call.err = last.call.raised
        /\ last.call.api = "get_package_versions" =>
               /\ last.call.err.code = "InvalidRequest"
               /\ Contains(last.call.err.message, last.call.path)
        /\ last.call.api \notin Tools =>
               /\ last.call.err.code = "MethodNotFound"
               /\ Contains(last.call.err.message, <<last.call.api>>)
\* a call of an unknown tool that ended with the generic internal error
C25_Rewrapped ==
    /\ ProtocolErrorRaised /\ last.call.api \notin Tools
    /\ last.call.raised.code = "MethodNotFound"
    /\ last.call.err = McpError("InternalError", GenericText)


(* C26: a set of a new key on a cache that holds the maximum number of     *)
(* keys evicts an entry to make room: it returns true, the new key can be  *)
(* retrieved at once, and the key count stays at the maximum.              *)
C26_SetStep ==
    (last'.op = "set" /\ last'.key \notin DOMAIN data
        /\ Cardinality(DOMAIN data) = MaxKeys) =>
            /\ last'.ret
            /\ CacheHit(data', last'.key, now)
            /\ Cardinality(DOMAIN data') = MaxKeys /\ stats'.keys = MaxKeys
C26_EvictsOnFull == [][C26_SetStep]_vars
\* a set of a new key on a full cache returned false and stored nothing
C26_Refused ==
    /\ last.op = "set" /\ ~last.ret
    /\ last.key \notin DOMAIN data
    /\ Cardinality(DOMAIN data) = MaxKeys

(* C29: once a feed fetch has succeeded, getPackageVersions and the index  *)
(* client's searchPackages end without an error for every argument,        *)
(* whatever lines the feed held, and every row of the snapshot has a       *)
(* defined path, version and timestamp.                                    *)
WellFormed(m) == m.path.def /\ m.version.def /\ m.timestamp.def
OverSnapshot(api) ==
    /\ last.op = "call" /\ last.call.api = api
    /\ last.call.pc \in {"done", "failed"}
    /\ cachedIndex.def
C29_WellFormedRows ==
    /\ cachedIndex.def => \A i \in 1..Len(Rows) : WellFormed(Rows[i])
    /\ \A api \in {"getPackageVersions", SearchApi} :
           OverSnapshot(api) => last.call.pc = "done"
\* getPackageVersions ended with a TypeError over a fetched snapshot that
\* holds a row of its package without a version
C29_VersionsThrows ==
    /\ OverSnapshot("getPackageVersions") /\ last.call.pc = "failed"
    /\ last.call.err.kind = "TypeError"
    /\ \E i \in 1..Len(Rows) :
           PathIs(Rows[i], last.call.path) /\ ~Rows[i].version.def
\* a snapshot that holds the row of a JSON scalar: no field is defined
C29_EmptyRow ==
    /\ cachedIndex.def
    /\ \E i \in 1..Len(Rows) :
           ~Rows[i].path.def /\ ~Rows[i].version.def /\ ~Rows[i].timestamp.def

(* C30: two requests that differ in kind, package path, effective version, *)
(* or symbol, query or limit never compute the same cache key, whatever    *)
(* characters their arguments hold, so no request is answered with a       *)
(* payload that was cached for a different query.                          *)
Effective(ver) == IF Truthy(ver) THEN ver ELSE NoStr
QueryOf(tool, path, ver, sym, limit) ==
    [kind |-> ClaimedKind(tool),
     path |-> IF tool = "search_packages" THEN sym.s ELSE path,
     version |-> IF tool \in VersionedTools THEN Effective(ver) ELSE NoStr,
     symbol |-> IF tool \in SymbolTools THEN sym ELSE NoStr,
     limit |-> IF tool = "search_packages" THEN Limit(limit) ELSE 0]
\* the requests of the model with the versions that can be in effect
EffectiveRequests ==
    {Request(q.tool, q.path, v, q.sym, q.limit) :
        q \in {k \in KeyRequests : k.tool \in Tools},
        v \in {NoStr, Some(<<"1">>), Some(<<"2">>)}}
KeyOfRequest(q) == cacheKey(q.tool, q.path, q.version, q.sym, q.limit)
QueryOfRequest(q) == QueryOf(q.tool, q.path, q.version, q.sym, q.limit)
\* the payload names the query it was made for
PayloadOf(doc, p) ==
    CASE doc.tag = "symbol" -> doc.name = p.sym.s /\ doc.packagePath = p.path
      [] doc.tag \in {"doc", "results"} ->
            /\ doc.url = pageUrl(p.api, p.path, p.ver, p.sym, p.limit)
            /\ doc.sym = p.sym
      [] doc.tag = "versions" -> doc.path = p.path
      [] OTHER -> TRUE
ServedFromCache == Succeeded /\ last.call.hit
\* the calls that have computed their key
LookedCalls ==
    {proc[r] : r \in Looked}
        \cup (IF ToolReturned /\ last.call.looked THEN {last.call} ELSE {})
CallQuery(p) == QueryOf(p.api, p.path, p.ver, p.sym, p.limit)
C30_KeysInjective ==
    /\ \A p \in LookedCalls, b \in EffectiveRequests :
           CallQuery(p) # QueryOfRequest(b) => p.key # KeyOfRequest(b)
    /\ ServedFromCache => PayloadOf(last.call.ret, last.call)
\* a request for function b of package p:a answered from the cache with the
\* declaration of function a:b of package p
C30_ForeignPayload ==
    /\ ServedFromCache /\ last.call.api = "get_function_doc"
    /\ last.call.path = <<"p", ":", "a">> /\ last.call.sym = Some(<<"b">>)
    /\ last.call.ret.packagePath = P
    /\ last.call.ret.name = <<"a", ":", "b">>
\* the same of the requests whose arguments hold neither ':' nor '@': it
\* holds
Plain(str) == \A i \in 1..Len(str) : str[i] \notin {":", "@"}
PlainRequest(q) == Plain(q.path) /\ Plain(q.version.s) /\ Plain(q.sym.s)
PlainCall(p) == Plain(p.path) /\ Plain(p.ver.s) /\ Plain(p.sym.s)
C30_PlainKeysInjective ==
    /\ \A p \in {c \in LookedCalls : PlainCall(c)},
          b \in {q \in EffectiveRequests : PlainRequest(q)} :
           CallQuery(p) # QueryOfRequest(b) => p.key # KeyOfRequest(b)
    /\ ServedFromCache /\ PlainCall(last.call) =>
           PayloadOf(last.call.ret, last.call)
\* a request served from the cache with the payload of an equal query
C30_OwnPayload ==
    /\ ServedFromCache /\ last.call.api = "get_function_doc"
    /\ last.call.ver = Some(<<"1">>)
    /\ PayloadOf(last.call.ret, last.call)

====
